---- MODULE Spec2Model ----
(***************************************************************************)
(* A model of the GPU-handle bookkeeping of the LearnOpenGL sources:       *)
(* Shader (Shader.cpp), MyWindow (both the EBO variant and the textured    *)
(* variant of MyWindow.cpp) and Window::processEvents (Window.cpp).        *)
(*                                                                         *)
(* The GL/SDL library is modelled by a record gl:                          *)
(*   objs  the kind of every object ever created; the name of an object is *)
(*         its index, so names are never reused and identify one creation  *)
(*   live  the names created and not yet passed to a glDelete* call        *)
(*   dels  how many times each name was passed to a glDelete* call         *)
(*   log   the library calls issued by the public operation that ran last  *)
(* Object creation is taken to succeed (a non-zero name), as the sources   *)
(* take it; whether a stage compiles, a program links, a file opens or an  *)
(* image decodes is an input of the operation.                             *)
(***************************************************************************)
EXTENDS Integers, Sequences, FiniteSets, TLC

\* Bound: number of Shader::compile() calls in one behaviour of a lone Shader.
MaxCompiles == 3

\* Bound: number of initialize() calls that reach Shader::compile() in one
\* behaviour of a MyWindow.
MaxInitializes == 2

\* Shader objects that exist side by side when moves are explored.
MaxShaders == 2

\* compile() calls made on those Shader objects.
MaxMoveCompiles == 2

\* Events SDL_PollEvent delivers in one run of main.
MaxPolls == 3

\* Frames main renders while its exit flag is not set.
MaxFrames == 2

\* MyWindow.cpp: window size passed to the OpenGLWindow constructor.
SCREEN_WIDTH == 800
SCREEN_HEIGHT == 600

\* Dimensions <<data1, data2>> a resize event may report.
Sizes == {<<640, 480>>, <<1024, 768>>}

VARIABLES
    gl,           \* the GL library state and the call log of the last operation
    m_programId,  \* Shader::m_programId
    m_VAO,        \* MyWindow::m_VAO
    m_VBO,        \* MyWindow::m_VBO
    m_EBO,        \* MyWindow::m_EBO
    m_texture,    \* MyWindow::m_texture (textured variant; stays 0 otherwise)
    m_width,      \* Window::m_width
    m_height,     \* Window::m_height
    viewport,     \* the GL viewport <<x, y, w, h>>
    variant,      \* which MyWindow.cpp is built: "ebo" or "textured"
    alive,        \* the object under study has not been destroyed
    lastOp,       \* the public operation that ran last
    lastRet,      \* its return value (TRUE for void operations)
    lastArgs,     \* its inputs
    prePid,       \* m_programId when it was called
    lastResize,   \* dimensions of the last resize event handled, <<>> if none
    pc,           \* main(): "start", "poll", "teardown", "done" ("off": no main)
    running,      \* main(): the local variable running
    exitCode,     \* main(): the value returned, once pc = "done"
    mainKind,     \* which main() is built: "mywindow" or "rawsdl"
    native,       \* SDL: the native window, the GL context and SDL itself
    hist,         \* what main() has done so far
    shaders,      \* several Shader objects: state and m_programId of each
    lastMove      \* <<destination, source>> of the last Shader move

vars == <<gl, m_programId, m_VAO, m_VBO, m_EBO, m_texture, m_width, m_height,
          viewport, variant, alive, lastOp, lastRet, lastArgs, prePid, lastResize,
          pc, running, exitCode, mainKind, native, hist, shaders, lastMove>>

winVars == <<m_VAO, m_VBO, m_EBO, m_texture, m_width, m_height, viewport,
             variant, lastResize>>

\* The variables of main() and of the Shader objects that move.
extVars == <<pc, running, exitCode, mainKind, native, hist, shaders, lastMove>>

\* The Shader objects of the move operations.
Slots == 1..MaxShaders

\* SDL before SDL_Init: no native window, no GL context.
NoNative == [sdlInits |-> 0, sdlQuits |-> 0,
             winCreated |-> 0, winDestroys |-> 0,
             ctxCreated |-> 0, ctxDestroys |-> 0]

\* main() before its first statement.
NoHist == [fail |-> "none", unwound |-> FALSE, initTrue |-> FALSE,
           nPolls |-> 0, nFrames |-> 0, nDispatched |-> 0,
           quitPolled |-> FALSE, postQuitPolls |-> 0,
           postQuitDispatched |-> 0, postQuitRenders |-> 0]

\* No main() and no moving Shader: the state of a lone object.
InitExt ==
    /\ pc = "off"
    /\ running = FALSE
    /\ exitCode = 0
    /\ mainKind = "none"
    /\ native = NoNative
    /\ hist = NoHist
    /\ shaders = [i \in Slots |-> [st |-> "none", pid |-> 0]]
    /\ lastMove = <<>>

----------------------------------------------------------------------------
(* The GL library *)

NoArgs == [vOpen |-> TRUE, fOpen |-> TRUE, vOk |-> TRUE, fOk |-> TRUE,
           lOk |-> TRUE, imgOk |-> TRUE]

\* F applied to the value of e: e is evaluated once, however often F uses it.
Bind(e, F(_)) == CHOOSE r \in {F(x) : x \in {e}} : TRUE

EmptyGL == [objs |-> <<>>, live |-> {}, dels |-> <<>>, log |-> <<>>]

\* A public operation starts with an empty call log.
Begin(g) == [g EXCEPT !.log = <<>>]

\* A library call that neither creates nor deletes an object.
Call(g, op, arg) == [g EXCEPT !.log = Append(@, [op |-> op, arg |-> arg])]

\* The number of compile() calls so far: each creates one vertex stage.
Compiles(g) == Cardinality({i \in DOMAIN g.objs : g.objs[i] = "vertex"})

\* The name the next created object gets.
NewId(g) == Len(g.objs) + 1

\* glCreateShader / glCreateProgram / glGen*: a fresh non-zero name.
glCreate(g, kind, op) ==
    Bind(g, LAMBDA x :
        [objs |-> Append(x.objs, kind),
         live |-> x.live \cup {NewId(x)},
         dels |-> Append(x.dels, 0),
         log  |-> Append(x.log, [op |-> op, arg |-> NewId(x)])])

\* glDeleteShader / glDeleteProgram / glDelete*.
glDelete(g, op, id) ==
    Bind(g, LAMBDA x :
        [objs |-> x.objs,
         live |-> x.live \ {id},
         dels |-> [i \in DOMAIN x.dels |->
                     IF i = id THEN x.dels[i] + 1 ELSE x.dels[i]],
         log  |-> Append(x.log, [op |-> op, arg |-> id])])

----------------------------------------------------------------------------
(* Shader.  A shader value is [g, pid]: the library state and m_programId;  *)
(* compile and loadFromFile add ret, the value returned.                    *)

\* Shader::cleanup
Shader_cleanup(sh) ==
    IF sh.pid # 0
    THEN [g |-> glDelete(sh.g, "glDeleteProgram", sh.pid), pid |-> 0]
    ELSE [g |-> sh.g, pid |-> sh.pid]

\* Shader::checkCompileErrors: GL_COMPILE_STATUS of the stage.
checkCompileErrors(ok) == ok

\* Shader::checkLinkErrors: GL_LINK_STATUS of the program.
checkLinkErrors(ok) == ok

\* Shader::compileShader: [g, shader], shader = 0 when the stage does not compile.
compileShader(g, type, ok) ==
    LET shader == NewId(g)
        g1 == glCreate(g, type, "glCreateShader")
        g2 == Call(g1, "glShaderSource", shader)
        g3 == Call(g2, "glCompileShader", shader)
    IN  IF ~checkCompileErrors(ok)
        THEN [g |-> glDelete(g3, "glDeleteShader", shader), shader |-> 0]
        ELSE [g |-> g3, shader |-> shader]

\* compile with the reset of m_programId after a failed link left out.
compile_keepsFailedProgram(sh, vOk, fOk, lOk) ==
    LET s0 == Shader_cleanup([g |-> Call(sh.g, "Shader::compile", 0), pid |-> sh.pid])
        v  == compileShader(s0.g, "vertex", vOk)
    IN  IF v.shader = 0
        THEN [g |-> v.g, pid |-> s0.pid, ret |-> FALSE]
        ELSE
        LET f == compileShader(v.g, "fragment", fOk)
        IN  IF f.shader = 0
            THEN [g |-> glDelete(f.g, "glDeleteShader", v.shader),
                  pid |-> s0.pid, ret |-> FALSE]
            ELSE
            LET prog == NewId(f.g)
                g1 == glCreate(f.g, "program", "glCreateProgram")
                g2 == Call(g1, "glAttachShader", v.shader)
                g3 == Call(g2, "glAttachShader", f.shader)
                g4 == Call(g3, "glLinkProgram", prog)
                g5 == glDelete(g4, "glDeleteShader", v.shader)
                g6 == glDelete(g5, "glDeleteShader", f.shader)
            IN  IF ~checkLinkErrors(lOk)
                THEN [g |-> glDelete(g6, "glDeleteProgram", prog),
                      pid |-> prog, ret |-> FALSE]
                ELSE [g |-> g6, pid |-> prog, ret |-> TRUE]

\* compile with the leading cleanup() left out.
compile_noCleanup(sh, vOk, fOk, lOk) ==
    LET s0 == [g |-> Call(sh.g, "Shader::compile", 0), pid |-> sh.pid]
        v  == compileShader(s0.g, "vertex", vOk)
    IN  IF v.shader = 0
        THEN [g |-> v.g, pid |-> s0.pid, ret |-> FALSE]
        ELSE
        LET f == compileShader(v.g, "fragment", fOk)
        IN  IF f.shader = 0
            THEN [g |-> glDelete(f.g, "glDeleteShader", v.shader),
                  pid |-> s0.pid, ret |-> FALSE]
            ELSE
            LET prog == NewId(f.g)
                g1 == glCreate(f.g, "program", "glCreateProgram")
                g2 == Call(g1, "glAttachShader", v.shader)
                g3 == Call(g2, "glAttachShader", f.shader)
                g4 == Call(g3, "glLinkProgram", prog)
                g5 == glDelete(g4, "glDeleteShader", v.shader)
                g6 == glDelete(g5, "glDeleteShader", f.shader)
            IN  IF ~checkLinkErrors(lOk)
                THEN [g |-> glDelete(g6, "glDeleteProgram", prog),
                      pid |-> 0, ret |-> FALSE]
                ELSE [g |-> g6, pid |-> prog, ret |-> TRUE]

\* compile with the release of the vertex stage on a fragment failure left out.
compile_leaksVertexStage(sh, vOk, fOk, lOk) ==
    LET s0 == Shader_cleanup([g |-> Call(sh.g, "Shader::compile", 0), pid |-> sh.pid])
        v  == compileShader(s0.g, "vertex", vOk)
    IN  IF v.shader = 0
        THEN [g |-> v.g, pid |-> s0.pid, ret |-> FALSE]
        ELSE
        LET f == compileShader(v.g, "fragment", fOk)
        IN  IF f.shader = 0
            THEN [g |-> f.g, pid |-> s0.pid, ret |-> FALSE]
            ELSE
            LET prog == NewId(f.g)
                g1 == glCreate(f.g, "program", "glCreateProgram")
                g2 == Call(g1, "glAttachShader", v.shader)
                g3 == Call(g2, "glAttachShader", f.shader)
                g4 == Call(g3, "glLinkProgram", prog)
                g5 == glDelete(g4, "glDeleteShader", v.shader)
                g6 == glDelete(g5, "glDeleteShader", f.shader)
            IN  IF ~checkLinkErrors(lOk)
                THEN [g |-> glDelete(g6, "glDeleteProgram", prog),
                      pid |-> 0, ret |-> FALSE]
                ELSE [g |-> g6, pid |-> prog, ret |-> TRUE]

\* Shader::compile
compile(sh, vOk, fOk, lOk) ==
    LET s0 == Shader_cleanup([g |-> Call(sh.g, "Shader::compile", 0), pid |-> sh.pid])
        v  == compileShader(s0.g, "vertex", vOk)
    IN  IF v.shader = 0
        THEN [g |-> v.g, pid |-> s0.pid, ret |-> FALSE]
        ELSE
        LET f == compileShader(v.g, "fragment", fOk)
        IN  IF f.shader = 0
            THEN [g |-> glDelete(f.g, "glDeleteShader", v.shader),
                  pid |-> s0.pid, ret |-> FALSE]
            ELSE
            LET prog == NewId(f.g)
                g1 == glCreate(f.g, "program", "glCreateProgram")
                g2 == Call(g1, "glAttachShader", v.shader)
                g3 == Call(g2, "glAttachShader", f.shader)
                g4 == Call(g3, "glLinkProgram", prog)
                success == checkLinkErrors(lOk)
                g5 == glDelete(g4, "glDeleteShader", v.shader)
                g6 == glDelete(g5, "glDeleteShader", f.shader)
            IN  IF ~success
                THEN [g |-> glDelete(g6, "glDeleteProgram", prog),
                      pid |-> 0, ret |-> FALSE]
                ELSE [g |-> g6, pid |-> prog, ret |-> TRUE]

\* loadFromFile with the is_open() test of the fragment file left out.
loadFromFile_ignoresFragmentOpen(sh, vOpen, fOpen, vOk, fOk, lOk) ==
    IF ~vOpen THEN [g |-> sh.g, pid |-> sh.pid, ret |-> FALSE]
    ELSE compile(sh, vOk, fOk /\ fOpen, lOk)

\* loadFromFile releasing the program it holds before it opens the files.
loadFromFile_cleansFirst(sh, vOpen, fOpen, vOk, fOk, lOk) ==
    Bind(Shader_cleanup(sh), LAMBDA s0 :
        IF ~vOpen THEN [g |-> s0.g, pid |-> s0.pid, ret |-> FALSE]
        ELSE IF ~fOpen THEN [g |-> s0.g, pid |-> s0.pid, ret |-> FALSE]
        ELSE compile(s0, vOk, fOk, lOk))

\* Shader::loadFromFile
loadFromFile(sh, vOpen, fOpen, vOk, fOk, lOk) ==
    IF ~vOpen THEN [g |-> sh.g, pid |-> sh.pid, ret |-> FALSE]
    ELSE IF ~fOpen THEN [g |-> sh.g, pid |-> sh.pid, ret |-> FALSE]
    ELSE compile(sh, vOk, fOk, lOk)

\* Shader::use
use(sh) ==
    IF sh.pid # 0 THEN Call(sh.g, "glUseProgram", sh.pid) ELSE sh.g

\* Shader::setInt
setInt(sh) ==
    Call(Call(sh.g, "glGetUniformLocation", sh.pid), "glUniform1i", 0)

\* Shader::isValid
isValid == m_programId # 0

----------------------------------------------------------------------------
(* A Shader object on its own: compile, loadFromFile, use and the          *)
(* destructor called in any order.                                         *)

InitShader ==
    /\ gl = EmptyGL
    /\ m_programId = 0
    /\ m_VAO = 0 /\ m_VBO = 0 /\ m_EBO = 0 /\ m_texture = 0
    /\ m_width = SCREEN_WIDTH /\ m_height = SCREEN_HEIGHT
    /\ viewport = <<0, 0, SCREEN_WIDTH, SCREEN_HEIGHT>>
    /\ variant = "ebo"
    /\ alive = TRUE
    /\ lastOp = "construct"
    /\ lastRet = TRUE
    /\ lastArgs = NoArgs
    /\ prePid = 0
    /\ lastResize = <<>>
    /\ InitExt

ShaderCompile ==
    \E vOk, fOk, lOk \in BOOLEAN :
        LET r == compile([g |-> Begin(gl), pid |-> m_programId], vOk, fOk, lOk)
        IN  /\ alive
            /\ Compiles(r.g) <= MaxCompiles
            /\ gl' = r.g
            /\ m_programId' = r.pid
            /\ lastOp' = "compile"
            /\ lastRet' = r.ret
            /\ lastArgs' = [NoArgs EXCEPT !.vOk = vOk, !.fOk = fOk, !.lOk = lOk]
            /\ prePid' = m_programId
            /\ UNCHANGED <<winVars, alive, extVars>>

ShaderLoadFromFile ==
    \E vOpen, fOpen, vOk, fOk, lOk \in BOOLEAN :
        LET r == loadFromFile([g |-> Begin(gl), pid |-> m_programId],
                              vOpen, fOpen, vOk, fOk, lOk)
        IN  /\ alive
            /\ Compiles(r.g) <= MaxCompiles
            /\ gl' = r.g
            /\ m_programId' = r.pid
            /\ lastOp' = "loadFromFile"
            /\ lastRet' = r.ret
            /\ lastArgs' = [NoArgs EXCEPT !.vOpen = vOpen, !.fOpen = fOpen,
                                          !.vOk = vOk, !.fOk = fOk, !.lOk = lOk]
            /\ prePid' = m_programId
            /\ UNCHANGED <<winVars, alive, extVars>>

ShaderUse ==
    /\ alive
    /\ gl' = use([g |-> Begin(gl), pid |-> m_programId])
    /\ lastOp' = "use"
    /\ lastRet' = TRUE
    /\ lastArgs' = NoArgs
    /\ prePid' = m_programId
    /\ UNCHANGED <<m_programId, winVars, alive, extVars>>

\* Shader::~Shader
ShaderDestroy ==
    LET r == Shader_cleanup([g |-> Begin(gl), pid |-> m_programId])
    IN  /\ alive
        /\ gl' = r.g
        /\ m_programId' = r.pid
        /\ alive' = FALSE
        /\ lastOp' = "destroy"
        /\ lastRet' = TRUE
        /\ lastArgs' = NoArgs
        /\ prePid' = m_programId
        /\ UNCHANGED <<winVars, extVars>>

NextShader == ShaderCompile \/ ShaderLoadFromFile \/ ShaderUse \/ ShaderDestroy

SpecShader == InitShader /\ [][NextShader]_vars

----------------------------------------------------------------------------
(* MyWindow.  A window value is [g, pid, VAO, VBO, EBO, texture]: the       *)
(* library state, m_shader.m_programId and the handles of the scene;        *)
(* initialize adds ret, the value returned.                                 *)

\* glGenVertexArrays, glGenBuffers, glGenBuffers and the upload of the
\* vertex and index data, as both variants of initialize() do it.
genBuffers(g) ==
    LET vao == NewId(g)
        g1 == glCreate(g, "vao", "glGenVertexArrays")
        vbo == NewId(g1)
        g2 == glCreate(g1, "buffer", "glGenBuffers")
        ebo == NewId(g2)
        g3 == glCreate(g2, "buffer", "glGenBuffers")
        g4 == Call(g3, "glBindVertexArray", vao)
        g5 == Call(Call(g4, "glBindBuffer", vbo), "glBufferData", vbo)
        g6 == Call(Call(g5, "glBindBuffer", ebo), "glBufferData", ebo)
    IN  [g |-> g6, VAO |-> vao, VBO |-> vbo, EBO |-> ebo]

\* One vertex attribute: glVertexAttribPointer, glEnableVertexAttribArray.
vertexAttrib(g, index) ==
    Call(Call(g, "glVertexAttribPointer", index), "glEnableVertexAttribArray", index)

\* MyWindow::initialize, EBO variant
initialize_ebo(w, a) ==
    Bind(compile([g |-> Call(w.g, "SDL_GL_MakeCurrent", 0), pid |-> w.pid],
                 a.vOk, a.fOk, a.lOk), LAMBDA c :
    IF ~c.ret
    THEN [g |-> c.g, pid |-> c.pid, VAO |-> w.VAO, VBO |-> w.VBO,
          EBO |-> w.EBO, texture |-> w.texture, ret |-> FALSE]
    ELSE
    Bind(genBuffers(c.g), LAMBDA b :
        LET g1 == vertexAttrib(b.g, 0)
            g2 == Call(g1, "glBindVertexArray", 0)
        IN  [g |-> g2, pid |-> c.pid, VAO |-> b.VAO, VBO |-> b.VBO,
             EBO |-> b.EBO, texture |-> w.texture, ret |-> TRUE]))

\* MyWindow::initialize, textured variant
initialize_textured(w, a) ==
    Bind(loadFromFile([g |-> Call(w.g, "SDL_GL_MakeCurrent", 0), pid |-> w.pid],
                      a.vOpen, a.fOpen, a.vOk, a.fOk, a.lOk), LAMBDA c :
    IF ~c.ret
    THEN [g |-> c.g, pid |-> c.pid, VAO |-> w.VAO, VBO |-> w.VBO,
          EBO |-> w.EBO, texture |-> w.texture, ret |-> FALSE]
    ELSE
    LET tex == NewId(c.g)
        g1 == glCreate(c.g, "texture", "glGenTextures")
        g2 == Call(g1, "glBindTexture", tex)
        g3 == Call(g2, "glTexParameteri", tex)
        g4 == Call(g3, "stbi_load", 0)
    IN  IF ~a.imgOk
        THEN [g |-> g4, pid |-> c.pid, VAO |-> w.VAO, VBO |-> w.VBO,
              EBO |-> w.EBO, texture |-> tex, ret |-> FALSE]
        ELSE
        LET g5 == Call(g4, "glTexImage2D", tex)
            g6 == Call(g5, "glGenerateMipmap", tex)
            g7 == Call(g6, "stbi_image_free", 0)
        IN  Bind(genBuffers(g7), LAMBDA b :
            LET g8 == vertexAttrib(vertexAttrib(b.g, 0), 1)
                g9 == Call(g8, "glBindVertexArray", 0)
            IN  [g |-> g9, pid |-> c.pid, VAO |-> b.VAO, VBO |-> b.VBO,
                 EBO |-> b.EBO, texture |-> tex, ret |-> TRUE]))

\* MyWindow::initialize of the variant built
initialize(w, v, a) ==
    IF v = "ebo" THEN initialize_ebo(w, a) ELSE initialize_textured(w, a)

\* if (handle) { glDelete...(1, &handle); handle = 0; } on the library state
deleteIfSet(g, op, handle) ==
    IF handle # 0 THEN glDelete(g, op, handle) ELSE g

\* MyWindow::cleanup, EBO variant
cleanup_ebo(w) ==
    LET g1 == deleteIfSet(w.g, "glDeleteVertexArrays", w.VAO)
        g2 == deleteIfSet(g1, "glDeleteBuffers", w.VBO)
        g3 == deleteIfSet(g2, "glDeleteBuffers", w.EBO)
    IN  [g |-> g3, pid |-> w.pid, VAO |-> 0, VBO |-> 0, EBO |-> 0,
         texture |-> w.texture]

\* MyWindow::cleanup, textured variant
cleanup_textured(w) ==
    LET g1 == deleteIfSet(w.g, "glDeleteVertexArrays", w.VAO)
        g2 == deleteIfSet(g1, "glDeleteBuffers", w.VBO)
        g3 == deleteIfSet(g2, "glDeleteBuffers", w.EBO)
        g4 == deleteIfSet(g3, "glDeleteTextures", w.texture)
    IN  [g |-> g4, pid |-> w.pid, VAO |-> 0, VBO |-> 0, EBO |-> 0,
         texture |-> 0]

\* cleanup with the handles deleted but not reset to zero.
cleanup_keepsHandles(w, v) ==
    LET c == IF v = "ebo" THEN cleanup_ebo(w) ELSE cleanup_textured(w)
    IN  [c EXCEPT !.VAO = w.VAO, !.VBO = w.VBO, !.EBO = w.EBO,
                  !.texture = w.texture]

\* cleanup with the index buffer reset to zero but never deleted.
cleanup_skipsEBO(w, v) ==
    LET c == IF v = "ebo" THEN cleanup_ebo([w EXCEPT !.EBO = 0])
                          ELSE cleanup_textured([w EXCEPT !.EBO = 0])
    IN  c

\* MyWindow::cleanup of the variant built
cleanup(w, v) ==
    IF v = "ebo" THEN cleanup_ebo(w) ELSE cleanup_textured(w)

\* MyWindow::render, EBO variant
render_ebo(w) ==
    LET g1 == Call(Call(w.g, "glClearColor", 0), "glClear", 0)
        g2 == use([g |-> g1, pid |-> w.pid])
        g3 == Call(g2, "glBindVertexArray", w.VAO)
        g4 == Call(g3, "glDrawElements", 6)
    IN  Call(g4, "SDL_GL_SwapWindow", 0)

\* MyWindow::render, textured variant
render_textured(w) ==
    LET g1 == Call(Call(w.g, "glClearColor", 0), "glClear", 0)
        g2 == Call(Call(g1, "glActiveTexture", 0), "glBindTexture", w.texture)
        g3 == use([g |-> g2, pid |-> w.pid])
        g4 == setInt([g |-> g3, pid |-> w.pid])
        g5 == Call(g4, "glBindVertexArray", w.VAO)
        g6 == Call(g5, "glDrawElements", 6)
    IN  Call(g6, "SDL_GL_SwapWindow", 0)

\* render with the frame presented before the draw call.
render_presentsBeforeDraw(w, v) ==
    LET g1 == Call(Call(w.g, "glClearColor", 0), "glClear", 0)
        g2 == IF v = "ebo" THEN g1
              ELSE Call(Call(g1, "glActiveTexture", 0), "glBindTexture", w.texture)
        g3 == use([g |-> g2, pid |-> w.pid])
        g4 == IF v = "ebo" THEN g3 ELSE setInt([g |-> g3, pid |-> w.pid])
        g5 == Call(g4, "glBindVertexArray", w.VAO)
        g6 == Call(g5, "SDL_GL_SwapWindow", 0)
    IN  Call(g6, "glDrawElements", 6)

\* render generating a vertex array on every frame.
render_createsPerFrame(w, v) ==
    glCreate(IF v = "ebo" THEN render_ebo(w) ELSE render_textured(w),
             "vao", "glGenVertexArrays")

\* MyWindow::render of the variant built
render(w, v) ==
    IF v = "ebo" THEN render_ebo(w) ELSE render_textured(w)

\* Window::processEvents: the cached size <<m_width, m_height>> afterwards.
Window_processEvents(size, ev) ==
    IF ev.type = "close_requested" THEN size
    ELSE IF ev.type = "resized" THEN <<ev.data1, ev.data2>>
    ELSE size

\* processEvents with the viewport set from the two dimensions exchanged.
processEvents_viewport_swapped(vp, ev) ==
    IF ev.type = "resized" THEN <<0, 0, ev.data2, ev.data1>> ELSE vp

\* MyWindow::processEvents: the viewport afterwards (glViewport on a resize).
processEvents_viewport(vp, ev) ==
    IF ev.type = "resized" THEN <<0, 0, ev.data1, ev.data2>> ELSE vp

\* The events SDL may deliver.
Events ==
    {[type |-> t, data1 |-> d[1], data2 |-> d[2]] :
        t \in {"resized", "close_requested", "quit"}, d \in Sizes}

----------------------------------------------------------------------------
(* A MyWindow object after a successful construction: initialize, cleanup, *)
(* render, processEvents and the destructor called in any order.           *)

ThisWindow ==
    [g |-> Begin(gl), pid |-> m_programId, VAO |-> m_VAO, VBO |-> m_VBO,
     EBO |-> m_EBO, texture |-> m_texture]

InitWindow ==
    /\ gl = EmptyGL
    /\ m_programId = 0
    /\ m_VAO = 0 /\ m_VBO = 0 /\ m_EBO = 0 /\ m_texture = 0
    /\ m_width = SCREEN_WIDTH /\ m_height = SCREEN_HEIGHT
    /\ viewport = <<0, 0, SCREEN_WIDTH, SCREEN_HEIGHT>>
    /\ variant \in {"ebo", "textured"}
    /\ alive = TRUE
    /\ lastOp = "construct"
    /\ lastRet = TRUE
    /\ lastArgs = NoArgs
    /\ prePid = 0
    /\ lastResize = <<>>
    /\ InitExt

\* The inputs initialize() reads: the EBO variant compiles fixed strings and
\* opens no file.
\* At most one step fails; an input initialize() does not get to read is TRUE.
InitializeArgs ==
    {a \in [vOpen : BOOLEAN, fOpen : BOOLEAN, vOk : BOOLEAN, fOk : BOOLEAN,
            lOk : BOOLEAN, imgOk : BOOLEAN] :
        /\ variant = "ebo" => (a.vOpen /\ a.fOpen /\ a.imgOk)
        /\ Cardinality({f \in DOMAIN a : ~a[f]}) <= 1}

Initialize ==
    \E a \in InitializeArgs :
        \E r \in {initialize(ThisWindow, variant, a)} :
            /\ alive
            /\ Compiles(r.g) <= MaxInitializes
            /\ gl' = r.g
            /\ m_programId' = r.pid
            /\ m_VAO' = r.VAO /\ m_VBO' = r.VBO /\ m_EBO' = r.EBO
            /\ m_texture' = r.texture
            /\ lastOp' = "initialize"
            /\ lastRet' = r.ret
            /\ lastArgs' = a
            /\ prePid' = m_programId
            /\ UNCHANGED <<m_width, m_height, viewport, variant, alive, lastResize,
                           extVars>>

Cleanup ==
    LET r == cleanup(ThisWindow, variant)
    IN  /\ alive
        /\ gl' = r.g
        /\ m_programId' = r.pid
        /\ m_VAO' = r.VAO /\ m_VBO' = r.VBO /\ m_EBO' = r.EBO
        /\ m_texture' = r.texture
        /\ lastOp' = "cleanup"
        /\ lastRet' = TRUE
        /\ lastArgs' = NoArgs
        /\ prePid' = m_programId
        /\ UNCHANGED <<m_width, m_height, viewport, variant, alive, lastResize,
                           extVars>>

Render ==
    /\ alive
    /\ gl' = render(ThisWindow, variant)
    /\ lastOp' = "render"
    /\ lastRet' = TRUE
    /\ lastArgs' = NoArgs
    /\ prePid' = m_programId
    /\ UNCHANGED <<m_programId, m_VAO, m_VBO, m_EBO, m_texture, m_width,
                   m_height, viewport, variant, alive, lastResize, extVars>>

ProcessEvents ==
    \E ev \in Events :
        /\ alive
        /\ gl' = IF ev.type = "resized"
                 THEN Call(Begin(gl), "glViewport", 0) ELSE Begin(gl)
        /\ viewport' = processEvents_viewport(viewport, ev)
        /\ m_width' = Window_processEvents(<<m_width, m_height>>, ev)[1]
        /\ m_height' = Window_processEvents(<<m_width, m_height>>, ev)[2]
        /\ lastResize' = IF ev.type = "resized"
                         THEN <<ev.data1, ev.data2>> ELSE lastResize
        /\ lastOp' = IF ev.type = "resized" THEN "resize" ELSE "event"
        /\ lastRet' = TRUE
        /\ lastArgs' = NoArgs
        /\ prePid' = m_programId
        /\ UNCHANGED <<m_programId, m_VAO, m_VBO, m_EBO, m_texture, variant, alive,
                       extVars>>

\* MyWindow::~MyWindow, then the destructors of m_shader, OpenGLWindow and Window
Destroy ==
    LET c  == cleanup(ThisWindow, variant)
        s  == Shader_cleanup([g |-> c.g, pid |-> c.pid])
        g1 == Call(s.g, "SDL_GL_DestroyContext", 0)
        g2 == Call(g1, "SDL_DestroyWindow", 0)
    IN  /\ alive
        /\ gl' = g2
        /\ m_programId' = s.pid
        /\ m_VAO' = c.VAO /\ m_VBO' = c.VBO /\ m_EBO' = c.EBO
        /\ m_texture' = c.texture
        /\ alive' = FALSE
        /\ lastOp' = "destroy"
        /\ lastRet' = TRUE
        /\ lastArgs' = NoArgs
        /\ prePid' = m_programId
        /\ UNCHANGED <<m_width, m_height, viewport, variant, lastResize, extVars>>

NextWindow == Initialize \/ Cleanup \/ Render \/ ProcessEvents \/ Destroy

SpecWindow == InitWindow /\ [][NextWindow]_vars

----------------------------------------------------------------------------
(* The native resources.  A native state n is [g, nat]: the call log and   *)
(* the counts of SDL_Init, SDL_Quit and of the windows and contexts created *)
(* and destroyed.  m_window and m_glContext are 0 (null) or 1.              *)

\* An SDL call that is only logged.
Sdl(n, op) == [n EXCEPT !.g = Call(@, op, 0)]

\* An SDL call that acquires or releases the resource counted in nat[field].
SdlCount(n, op, field) ==
    [n EXCEPT !.g = Call(@, op, 0), !.nat[field] = @ + 1]

\* Window::Window
Window_construct(n, winOk) ==
    IF winOk
    THEN [n |-> SdlCount(n, "SDL_CreateWindow", "winCreated"),
          m_window |-> 1, m_glContext |-> 0, thrown |-> "none"]
    ELSE [n |-> Sdl(n, "SDL_CreateWindow"),
          m_window |-> 0, m_glContext |-> 0, thrown |-> "window"]

\* Window::~Window
Window_destroy(n, m_window) ==
    IF m_window # 0 THEN SdlCount(n, "SDL_DestroyWindow", "winDestroys") ELSE n

\* OpenGLWindow::OpenGLWindow; thrown names the exception it leaves with.
OpenGLWindow_construct(n, winOk, ctxOk, gladOk, s_gladInitialized) ==
    Bind(Window_construct(n, winOk), LAMBDA b :
    IF b.thrown # "none" THEN b
    ELSE IF ~ctxOk
    THEN [n |-> SdlCount(Sdl(b.n, "SDL_GL_CreateContext"),
                         "SDL_DestroyWindow", "winDestroys"),
          m_window |-> b.m_window, m_glContext |-> 0, thrown |-> "context"]
    ELSE
    Bind(Sdl(SdlCount(b.n, "SDL_GL_CreateContext", "ctxCreated"),
             "SDL_GL_MakeCurrent"), LAMBDA n2 :
    IF ~s_gladInitialized /\ ~gladOk
    THEN [n |-> SdlCount(SdlCount(Sdl(n2, "gladLoadGLLoader"),
                                  "SDL_GL_DestroyContext", "ctxDestroys"),
                         "SDL_DestroyWindow", "winDestroys"),
          m_window |-> b.m_window, m_glContext |-> 1, thrown |-> "loader"]
    ELSE [n |-> Sdl(IF s_gladInitialized THEN n2 ELSE Sdl(n2, "gladLoadGLLoader"),
                    "SDL_GL_SetSwapInterval"),
          m_window |-> b.m_window, m_glContext |-> 1, thrown |-> "none"]))

\* OpenGLWindow::~OpenGLWindow
OpenGLWindow_destroy(n, m_glContext) ==
    IF m_glContext # 0
    THEN SdlCount(n, "SDL_GL_DestroyContext", "ctxDestroys") ELSE n

\* The destructors that run when the OpenGLWindow constructor throws and the
\* stack is unwound: the Window base is complete unless it threw itself.
OpenGLWindow_unwind(c) ==
    IF c.thrown \in {"context", "loader"}
    THEN Window_destroy(c.n, c.m_window) ELSE c.n

\* delete of a MyWindow: ~MyWindow, ~Shader, ~OpenGLWindow, ~Window.
\* w is the scene, n.g the library state it is deleted in.
MyWindow_destroy(n, w, v) ==
    Bind(cleanup([w EXCEPT !.g = n.g], v), LAMBDA c :
    Bind(Shader_cleanup([g |-> c.g, pid |-> c.pid]), LAMBDA sh :
        [n |-> Window_destroy(
                   OpenGLWindow_destroy([n EXCEPT !.g = sh.g], 1), 1),
         w |-> [c EXCEPT !.g = sh.g, !.pid = sh.pid]]))

----------------------------------------------------------------------------
(* The two entry points: main built on MyWindow and main on raw SDL calls. *)
(* pc is "start" before main runs, "poll" inside while (running),           *)
(* "teardown" after the loop, "done" once main has returned exitCode and    *)
(* "aborted" when an exception left main and std::terminate ended the run.  *)

\* The events SDL_PollEvent delivers to main.
MainEvents ==
    {[type |-> "quit", data1 |-> 0, data2 |-> 0, key |-> "none"],
     [type |-> "close_requested", data1 |-> 0, data2 |-> 0, key |-> "none"],
     [type |-> "key_down", data1 |-> 0, data2 |-> 0, key |-> "escape"],
     [type |-> "key_down", data1 |-> 0, data2 |-> 0, key |-> "other"]}
    \cup {[type |-> "resized", data1 |-> d[1], data2 |-> d[2], key |-> "none"] :
            d \in Sizes}

\* The five SDL_GL_SetAttribute calls.
setAttributes(n) ==
    Sdl(Sdl(Sdl(Sdl(Sdl(n, "SDL_GL_SetAttribute"), "SDL_GL_SetAttribute"),
                "SDL_GL_SetAttribute"), "SDL_GL_SetAttribute"),
        "SDL_GL_SetAttribute")

\* if (!window->initialize()) of main entering the loop whatever was returned.
main_afterInitialize_ignoresResult(ok) == TRUE

\* if (!window->initialize()) { ... return -1; }: TRUE when main goes on.
main_afterInitialize(ok) == ok

\* The switch of the raw-SDL main with every key ending the loop.
main_switch_anyKeyQuits(kind, run, ev) ==
    IF ev.type = "quit" THEN FALSE
    ELSE IF kind = "rawsdl" /\ ev.type = "key_down" THEN FALSE
    ELSE run

\* switch (event.type) of the event loop: the exit flag afterwards.
main_switch(kind, run, ev) ==
    IF ev.type = "quit" THEN FALSE
    ELSE IF kind = "rawsdl" /\ ev.type = "key_down" /\ ev.key = "escape" THEN FALSE
    ELSE run

\* while (running), evaluated after a frame: where main goes next.
main_loopCondition(run) == IF run THEN "poll" ELSE "teardown"

\* The scene of a MyWindow just constructed.
NewScene(g) ==
    [g |-> g, pid |-> 0, VAO |-> 0, VBO |-> 0, EBO |-> 0, texture |-> 0]

\* What main leaves when it ends before the loop.
Ended(n, w, how, code, why, unwound) ==
    [n |-> n, w |-> w, alive |-> FALSE, pc |-> how, exitCode |-> code,
     fail |-> why, unwound |-> unwound, initTrue |-> FALSE]

\* main on MyWindow up to the loop.  An exception of the constructor is not
\* caught: std::terminate ends the run, with or without the stack unwound.
main_mywindow_start(g, nat, v, a, sdlOk, winOk, ctxOk, gladOk, unwind) ==
    IF ~sdlOk
    THEN Ended(Sdl([g |-> g, nat |-> nat], "SDL_Init"), NewScene(g),
               "done", -1, "sdl", FALSE)
    ELSE
    Bind(OpenGLWindow_construct(
             setAttributes(SdlCount([g |-> g, nat |-> nat], "SDL_Init", "sdlInits")),
             winOk, ctxOk, gladOk, FALSE), LAMBDA c :
    IF c.thrown # "none"
    THEN Ended(IF unwind THEN OpenGLWindow_unwind(c) ELSE c.n, NewScene(g),
               "aborted", 0, c.thrown, unwind)
    ELSE
    Bind(initialize(NewScene(c.n.g), v, a), LAMBDA r :
    LET w == [g |-> r.g, pid |-> r.pid, VAO |-> r.VAO, VBO |-> r.VBO,
              EBO |-> r.EBO, texture |-> r.texture]
        n1 == [c.n EXCEPT !.g = r.g]
    IN  IF ~main_afterInitialize(r.ret)
        THEN Bind(MyWindow_destroy(SdlCount(n1, "SDL_Quit", "sdlQuits"), w, v),
                  LAMBDA d : Ended(d.n, d.w, "done", -1, "initialize", FALSE))
        ELSE [n |-> n1, w |-> w, alive |-> TRUE, pc |-> "poll", exitCode |-> 0,
              fail |-> IF r.ret THEN "none" ELSE "initialize",
              unwound |-> FALSE, initTrue |-> r.ret]))

\* main on raw SDL calls up to the loop.
main_rawsdl_start(g, nat, sdlOk, winOk, ctxOk, gladOk) ==
    IF ~sdlOk
    THEN Ended(Sdl([g |-> g, nat |-> nat], "SDL_Init"), NewScene(g),
               "done", -1, "sdl", FALSE)
    ELSE
    Bind(setAttributes(SdlCount([g |-> g, nat |-> nat], "SDL_Init", "sdlInits")),
         LAMBDA n1 :
    IF ~winOk
    THEN Ended(SdlCount(Sdl(n1, "SDL_CreateWindow"), "SDL_Quit", "sdlQuits"),
               NewScene(g), "done", -1, "window", FALSE)
    ELSE
    Bind(SdlCount(n1, "SDL_CreateWindow", "winCreated"), LAMBDA n2 :
    IF ~ctxOk
    THEN Ended(SdlCount(SdlCount(Sdl(n2, "SDL_GL_CreateContext"),
                                 "SDL_DestroyWindow", "winDestroys"),
                        "SDL_Quit", "sdlQuits"),
               NewScene(g), "done", -1, "context", FALSE)
    ELSE
    Bind(SdlCount(n2, "SDL_GL_CreateContext", "ctxCreated"), LAMBDA n3 :
    IF ~gladOk
    THEN Ended(SdlCount(SdlCount(SdlCount(Sdl(n3, "gladLoadGLLoader"),
                                          "SDL_GL_DestroyContext", "ctxDestroys"),
                                 "SDL_DestroyWindow", "winDestroys"),
                        "SDL_Quit", "sdlQuits"),
               NewScene(g), "done", -1, "loader", FALSE)
    ELSE [n |-> Sdl(Sdl(Sdl(n3, "gladLoadGLLoader"), "SDL_GL_SetSwapInterval"),
                    "glViewport"),
          w |-> NewScene(g), alive |-> FALSE, pc |-> "poll", exitCode |-> 0,
          fail |-> "none", unwound |-> FALSE, initTrue |-> FALSE])))

\* main after the loop: the resources released and 0 returned.
main_teardown(n, w, kind, v) ==
    IF kind = "mywindow"
    THEN Bind(MyWindow_destroy(n, w, v), LAMBDA d :
              [n |-> SdlCount(d.n, "SDL_Quit", "sdlQuits"), w |-> d.w])
    ELSE [n |-> SdlCount(SdlCount(SdlCount(n, "SDL_GL_DestroyContext", "ctxDestroys"),
                                  "SDL_DestroyWindow", "winDestroys"),
                         "SDL_Quit", "sdlQuits"),
          w |-> w]

\* The frame of the raw-SDL main.
main_rawsdl_frame(g) ==
    Call(Call(Call(g, "glClearColor", 0), "glClear", 0), "SDL_GL_SwapWindow", 0)

\* An event that ends the loop: quit, or Escape pressed in the raw-SDL main.
IsQuit(kind, ev) ==
    \/ ev.type = "quit"
    \/ kind = "rawsdl" /\ ev.type = "key_down" /\ ev.key = "escape"

InitMain ==
    /\ gl = EmptyGL
    /\ m_programId = 0
    /\ m_VAO = 0 /\ m_VBO = 0 /\ m_EBO = 0 /\ m_texture = 0
    /\ m_width = SCREEN_WIDTH /\ m_height = SCREEN_HEIGHT
    /\ viewport = <<0, 0, SCREEN_WIDTH, SCREEN_HEIGHT>>
    /\ \/ mainKind = "mywindow" /\ variant \in {"ebo", "textured"}
       \/ mainKind = "rawsdl" /\ variant = "ebo"
    /\ alive = FALSE
    /\ lastOp = "construct"
    /\ lastRet = TRUE
    /\ lastArgs = NoArgs
    /\ prePid = 0
    /\ lastResize = <<>>
    /\ pc = "start"
    /\ running = FALSE
    /\ exitCode = 0
    /\ native = NoNative
    /\ hist = NoHist
    /\ shaders = [i \in Slots |-> [st |-> "none", pid |-> 0]]
    /\ lastMove = <<>>

\* main from its first line to the loop, or to its end when startup fails
MainStart ==
    \E sdlOk, winOk, ctxOk, gladOk, unwind \in BOOLEAN, a \in InitializeArgs :
        \E r \in {IF mainKind = "mywindow"
                  THEN main_mywindow_start(Begin(gl), native, variant, a,
                                           sdlOk, winOk, ctxOk, gladOk, unwind)
                  ELSE main_rawsdl_start(Begin(gl), native,
                                         sdlOk, winOk, ctxOk, gladOk)} :
            /\ pc = "start"
            /\ gl' = r.n.g
            /\ native' = r.n.nat
            /\ m_programId' = r.w.pid
            /\ m_VAO' = r.w.VAO /\ m_VBO' = r.w.VBO /\ m_EBO' = r.w.EBO
            /\ m_texture' = r.w.texture
            /\ alive' = r.alive
            /\ pc' = r.pc
            /\ running' = (r.pc = "poll")
            /\ exitCode' = r.exitCode
            /\ hist' = [hist EXCEPT !.fail = r.fail, !.unwound = r.unwound,
                                    !.initTrue = r.initTrue]
            /\ lastOp' = "main_start"
            /\ lastRet' = (r.pc = "poll")
            /\ lastArgs' = a
            /\ prePid' = m_programId
            /\ UNCHANGED <<m_width, m_height, viewport, variant, lastResize,
                           mainKind, shaders, lastMove>>

\* One event returned by SDL_PollEvent: the switch, then processEvents
MainPoll ==
    \E ev \in MainEvents :
        /\ pc = "poll"
        /\ hist.nPolls < MaxPolls
        /\ running' = main_switch(mainKind, running, ev)
        /\ gl' = IF ev.type = "resized"
                 THEN Call(Begin(gl), "glViewport", 0) ELSE Begin(gl)
        /\ viewport' = processEvents_viewport(viewport, ev)
        /\ IF mainKind = "mywindow"
           THEN /\ m_width' = Window_processEvents(<<m_width, m_height>>, ev)[1]
                /\ m_height' = Window_processEvents(<<m_width, m_height>>, ev)[2]
           ELSE UNCHANGED <<m_width, m_height>>
        /\ lastResize' = IF ev.type = "resized"
                         THEN <<ev.data1, ev.data2>> ELSE lastResize
        /\ hist' = [hist EXCEPT
              !.nPolls = @ + 1,
              !.nDispatched = IF mainKind = "mywindow" THEN @ + 1 ELSE @,
              !.quitPolled = @ \/ IsQuit(mainKind, ev),
              !.postQuitPolls = IF hist.quitPolled THEN @ + 1 ELSE @,
              !.postQuitDispatched =
                  IF mainKind = "mywindow" /\ (hist.quitPolled \/ IsQuit(mainKind, ev))
                  THEN @ + 1 ELSE @]
        /\ lastOp' = "main_poll"
        /\ lastRet' = TRUE
        /\ lastArgs' = NoArgs
        /\ prePid' = m_programId
        /\ UNCHANGED <<m_programId, m_VAO, m_VBO, m_EBO, m_texture, variant, alive,
                       pc, exitCode, mainKind, native, shaders, lastMove>>

\* SDL_PollEvent finds no event: the frame is rendered and while (running)
\* is evaluated
MainFrame ==
    /\ pc = "poll"
    /\ hist.nFrames < MaxFrames \/ ~running
    /\ gl' = IF mainKind = "mywindow"
             THEN render(ThisWindow, variant) ELSE main_rawsdl_frame(Begin(gl))
    /\ pc' = main_loopCondition(running)
    /\ hist' = [hist EXCEPT
          !.nFrames = @ + 1,
          !.postQuitRenders = IF hist.quitPolled THEN @ + 1 ELSE @]
    /\ lastOp' = "main_frame"
    /\ lastRet' = TRUE
    /\ lastArgs' = NoArgs
    /\ prePid' = m_programId
    /\ UNCHANGED <<m_programId, winVars, alive, running, exitCode, mainKind,
                   native, shaders, lastMove>>

\* main after the loop: window.reset() or the raw destroy calls, SDL_Quit,
\* return 0
MainTeardown ==
    \E r \in {main_teardown([g |-> Begin(gl), nat |-> native], ThisWindow,
                            mainKind, variant)} :
        /\ pc = "teardown"
        /\ gl' = r.n.g
        /\ native' = r.n.nat
        /\ m_programId' = r.w.pid
        /\ m_VAO' = r.w.VAO /\ m_VBO' = r.w.VBO /\ m_EBO' = r.w.EBO
        /\ m_texture' = r.w.texture
        /\ alive' = FALSE
        /\ pc' = "done"
        /\ exitCode' = 0
        /\ lastOp' = "main_teardown"
        /\ lastRet' = TRUE
        /\ lastArgs' = NoArgs
        /\ prePid' = m_programId
        /\ UNCHANGED <<m_width, m_height, viewport, variant, lastResize, running,
                       mainKind, hist, shaders, lastMove>>

NextMain == MainStart \/ MainPoll \/ MainFrame \/ MainTeardown

SpecMain == InitMain /\ [][NextMain]_vars

----------------------------------------------------------------------------
(* Shader objects moved into one another.  shaders[i] is the i-th object:  *)
(* st is "none" before its constructor, "alive" until its destructor and    *)
(* "dead" after it; pid is its m_programId.                                 *)

\* Shader::Shader(Shader&& other): the ids of the new object and of other.
Shader_moveConstruct(other) == [pid |-> other, other |-> 0]

\* Move assignment that leaves other's id in place.
Shader_moveAssign_keepsSource(g, this, other, same) ==
    IF ~same
    THEN LET c == Shader_cleanup([g |-> g, pid |-> this])
         IN  [g |-> c.g, pid |-> other, other |-> other]
    ELSE [g |-> g, pid |-> this, other |-> other]

\* Move assignment that does not release the program held before.
Shader_moveAssign_noCleanup(g, this, other, same) ==
    IF ~same
    THEN [g |-> g, pid |-> other, other |-> 0]
    ELSE [g |-> g, pid |-> this, other |-> other]

\* Shader::operator=(Shader&& other); same is this == &other.
Shader_moveAssign(g, this, other, same) ==
    IF ~same
    THEN LET c == Shader_cleanup([g |-> g, pid |-> this])
         IN  [g |-> c.g, pid |-> other, other |-> 0]
    ELSE [g |-> g, pid |-> this, other |-> other]

moveFrame == <<m_programId, winVars, alive, lastOp, lastRet, lastArgs, prePid,
               pc, running, exitCode, mainKind, native, hist>>

InitMove ==
    /\ gl = EmptyGL
    /\ m_programId = 0
    /\ m_VAO = 0 /\ m_VBO = 0 /\ m_EBO = 0 /\ m_texture = 0
    /\ m_width = SCREEN_WIDTH /\ m_height = SCREEN_HEIGHT
    /\ viewport = <<0, 0, SCREEN_WIDTH, SCREEN_HEIGHT>>
    /\ variant = "ebo"
    /\ alive = TRUE
    /\ lastOp = "construct"
    /\ lastRet = TRUE
    /\ lastArgs = NoArgs
    /\ prePid = 0
    /\ lastResize = <<>>
    /\ InitExt

\* Shader::Shader()
MoveDefault ==
    \E i \in Slots :
        /\ shaders[i].st = "none"
        /\ shaders' = [shaders EXCEPT ![i] = [st |-> "alive", pid |-> 0]]
        /\ gl' = Begin(gl)
        /\ lastMove' = <<"construct", i, 0, 0, 0>>
        /\ UNCHANGED moveFrame

\* Shader::compile on one of the objects
MoveCompile ==
    \E i \in Slots, vOk, fOk, lOk \in BOOLEAN :
        \E r \in {compile([g |-> Begin(gl), pid |-> shaders[i].pid], vOk, fOk, lOk)} :
            /\ shaders[i].st = "alive"
            /\ Compiles(r.g) <= MaxMoveCompiles
            /\ gl' = r.g
            /\ shaders' = [shaders EXCEPT ![i].pid = r.pid]
            /\ lastMove' = <<"compile", i, 0, shaders[i].pid, 0>>
            /\ UNCHANGED moveFrame

\* Shader a(std::move(b)): object i constructed from object j
MoveConstruct ==
    \E i, j \in Slots :
        \E r \in {Shader_moveConstruct(shaders[j].pid)} :
            /\ i # j
            /\ shaders[i].st = "none"
            /\ shaders[j].st = "alive"
            /\ shaders' = [shaders EXCEPT ![i] = [st |-> "alive", pid |-> r.pid],
                                          ![j].pid = r.other]
            /\ gl' = Begin(gl)
            /\ lastMove' = <<"moveConstruct", i, j, 0, shaders[j].pid>>
            /\ UNCHANGED moveFrame

\* a = std::move(b): object j assigned to object i, i = j included
MoveAssign ==
    \E i, j \in Slots :
        \E r \in {Shader_moveAssign(Begin(gl), shaders[i].pid, shaders[j].pid, i = j)} :
            /\ shaders[i].st = "alive"
            /\ shaders[j].st = "alive"
            /\ shaders' = [shaders EXCEPT ![j].pid = r.other, ![i].pid = r.pid]
            /\ gl' = r.g
            /\ lastMove' = <<"moveAssign", i, j, shaders[i].pid, shaders[j].pid>>
            /\ UNCHANGED moveFrame

\* Shader::~Shader of one of the objects
MoveDestroy ==
    \E i \in Slots :
        \E r \in {Shader_cleanup([g |-> Begin(gl), pid |-> shaders[i].pid])} :
            /\ shaders[i].st = "alive"
            /\ shaders' = [shaders EXCEPT ![i] = [st |-> "dead", pid |-> r.pid]]
            /\ gl' = r.g
            /\ lastMove' = <<"destroy", i, 0, shaders[i].pid, 0>>
            /\ UNCHANGED moveFrame

NextMove == MoveDefault \/ MoveCompile \/ MoveConstruct \/ MoveAssign \/ MoveDestroy

SpecMove == InitMove /\ [][NextMove]_vars

----------------------------------------------------------------------------
(* Reading the call log *)

\* Positions of the calls named op in a log.
At(log, op) == {i \in DOMAIN log : log[i].op = op}

\* Positions of the calls named op with argument arg.
AtArg(log, op, arg) == {i \in DOMAIN log : log[i].op = op /\ log[i].arg = arg}

\* Names created by the calls named op in a log.
Created(log, op) == {log[i].arg : i \in At(log, op)}

\* Every position in A is before every position in B.
Before(A, B) == \A i \in A : \A j \in B : i < j

LivePrograms == {i \in gl.live : gl.objs[i] = "program"}

----------------------------------------------------------------------------
(* Claims about Shader, checked under SpecShader *)

\* C1: compile() returns false and leaves m_programId at zero whenever the
\* vertex stage does not compile, the fragment stage does not compile or the
\* link fails, whatever the handle was before; after compile() returns,
\* isValid() is true exactly when compile() returned true.
C1_CompileFailureLeavesZeroHandle ==
    lastOp = "compile" =>
        /\ (~lastArgs.vOk \/ ~lastArgs.fOk \/ ~lastArgs.lOk)
                => (lastRet = FALSE /\ m_programId = 0)
        /\ (isValid <=> lastRet)

\* A link failure of a Shader that held a program before the call.
C1_Witness ==
    /\ lastOp = "compile" /\ prePid # 0 /\ ~lastRet
    /\ lastArgs.vOk /\ lastArgs.fOk /\ ~lastArgs.lOk

\* C2: compile() on a Shader that holds a program deletes that program before
\* it creates any stage or program object; at any time the Shader has at most
\* one live program object, and has one exactly when m_programId is non-zero.
C2_OldProgramReleasedFirst ==
    /\ Cardinality(LivePrograms) <= 1
    /\ (Cardinality(LivePrograms) = 1 <=> m_programId # 0)
    /\ m_programId # 0 => LivePrograms = {m_programId}
    /\ (lastOp = "compile" /\ prePid # 0) =>
          /\ Cardinality(AtArg(gl.log, "glDeleteProgram", prePid)) = 1
          /\ Before(AtArg(gl.log, "glDeleteProgram", prePid),
                    At(gl.log, "glCreateShader") \cup At(gl.log, "glCreateProgram"))

\* A second successful compile() on a Shader that held a program.
C2_Witness ==
    /\ lastOp = "compile" /\ prePid # 0 /\ lastRet
    /\ m_programId # prePid /\ gl.dels[prePid] = 1

\* C3: on every return path of compile() each stage object created by the call
\* has been deleted exactly once, and on a failure path so has the program
\* object the call created; the link is attempted only if both stages compiled
\* and no fragment stage is created when the vertex stage fails.
C3_StagesReleasedOnEveryPath ==
    lastOp = "compile" =>
        /\ \A id \in Created(gl.log, "glCreateShader") :
              /\ Cardinality(AtArg(gl.log, "glDeleteShader", id)) = 1
              /\ gl.dels[id] = 1
              /\ id \notin gl.live
        /\ ~lastRet =>
              \A id \in Created(gl.log, "glCreateProgram") :
                  /\ Cardinality(AtArg(gl.log, "glDeleteProgram", id)) = 1
                  /\ gl.dels[id] = 1
                  /\ id \notin gl.live
        /\ At(gl.log, "glLinkProgram") # {} => (lastArgs.vOk /\ lastArgs.fOk)
        /\ (lastArgs.vOk /\ lastArgs.fOk)
              => Cardinality(At(gl.log, "glLinkProgram")) = 1
        /\ ~lastArgs.vOk =>
              \A id \in Created(gl.log, "glCreateShader") : gl.objs[id] = "vertex"

\* A compile() whose fragment stage fails after the vertex stage compiled.
C3_Witness ==
    /\ lastOp = "compile" /\ ~lastRet
    /\ lastArgs.vOk /\ ~lastArgs.fOk
    /\ Cardinality(Created(gl.log, "glCreateShader")) = 2

\* C4: loadFromFile() returns false when the vertex file or the fragment file
\* cannot be opened, and then compile() is not invoked and no stage or
\* program object is created; compile() runs only after both files opened.
C4_LoadFailsWithoutCompiling ==
    lastOp = "loadFromFile" =>
        /\ (~lastArgs.vOpen \/ ~lastArgs.fOpen) =>
              /\ lastRet = FALSE
              /\ At(gl.log, "Shader::compile") = {}
              /\ At(gl.log, "glCreateShader") = {}
              /\ At(gl.log, "glCreateProgram") = {}
        /\ At(gl.log, "Shader::compile") # {}
              => (lastArgs.vOpen /\ lastArgs.fOpen)

\* A loadFromFile() whose vertex file opens and whose fragment file does not.
C4_Witness ==
    /\ lastOp = "loadFromFile" /\ ~lastRet
    /\ lastArgs.vOpen /\ ~lastArgs.fOpen

----------------------------------------------------------------------------
(* Claims about MyWindow, checked under SpecWindow *)

HandlesZero == m_VAO = 0 /\ m_VBO = 0 /\ m_EBO = 0 /\ m_texture = 0

DeleteOps == {"glDeleteVertexArrays", "glDeleteBuffers", "glDeleteTextures",
              "glDeleteProgram", "glDeleteShader"}

GenOps == {"glGenVertexArrays", "glGenBuffers", "glGenTextures",
           "glCreateProgram", "glCreateShader"}

\* Positions of the delete calls in a log.
Deletes(log) == {i \in DOMAIN log : log[i].op \in DeleteOps}

\* The objects a scene owns: everything but the transient shader stages.
OwnedKinds == {"vao", "buffer", "texture", "program"}

\* The scene holds every handle a successful initialize() sets.
Ready ==
    /\ m_programId # 0 /\ m_VAO # 0 /\ m_VBO # 0 /\ m_EBO # 0
    /\ variant = "textured" => m_texture # 0

\* The program state a caller of cleanup() can observe.
SceneState == <<gl.objs, gl.live, gl.dels, m_programId, m_VAO, m_VBO, m_EBO,
                m_texture, m_width, m_height, viewport>>

\* C5: cleanup() is idempotent: a second cleanup() right after a first leaves
\* the state as the first left it and issues no delete call, and VAO, VBO,
\* EBO and texture are zero after cleanup().
C5_CleanupIdempotent ==
    /\ [](lastOp = "cleanup" => HandlesZero)
    /\ [][(lastOp = "cleanup" /\ lastOp' = "cleanup") =>
            (SceneState' = SceneState /\ Deletes(gl'.log) = {})]_vars

\* A cleanup() that found nothing to delete on a scene whose vertex array an
\* earlier cleanup() deleted.
C5_Witness ==
    /\ lastOp = "cleanup" /\ gl.log = <<>>
    /\ \E i \in DOMAIN gl.objs : gl.objs[i] = "vao" /\ gl.dels[i] = 1

\* C6 as stated: after cleanup() on a Ready scene VAO, VBO, EBO, texture and
\* the program handle of m_shader are all zero.
C6_Original ==
    [][(Ready /\ lastOp' = "cleanup") =>
          (HandlesZero' /\ m_programId' = 0)]_vars

\* C6 as amended: after cleanup() on a Ready scene VAO, VBO, EBO and texture
\* have each been deleted once and are zero, while the program handle of
\* m_shader is unchanged, non-zero and still live.
C6_CleanupKeepsShader ==
    [][(Ready /\ lastOp' = "cleanup") =>
          /\ HandlesZero'
          /\ \A h \in {m_VAO, m_VBO, m_EBO, m_texture} \ {0} :
                h \notin gl'.live /\ gl'.dels[h] = 1
          /\ m_programId' = m_programId
          /\ m_programId' \in gl'.live]_vars

\* A cleanup() that deleted the vertex array of a scene with a linked program.
C6_Witness ==
    /\ lastOp = "cleanup" /\ HandlesZero
    /\ At(gl.log, "glDeleteVertexArrays") # {}
    /\ m_programId # 0 /\ m_programId \in gl.live

\* C7 as stated: once the MyWindow is destroyed, every vertex array, buffer,
\* texture and program it created has been deleted exactly once; none is
\* live and none was deleted twice.
C7_Original ==
    lastOp = "destroy" =>
        \A i \in DOMAIN gl.objs :
            gl.objs[i] \in OwnedKinds => (i \notin gl.live /\ gl.dels[i] = 1)

\* C8 as stated: when initialize() returns false every handle is zero, every
\* object the attempt created has been released, and nothing is generated
\* after the failing step.
C8_Original ==
    (lastOp = "initialize" /\ ~lastRet) =>
        /\ HandlesZero /\ m_programId = 0
        /\ \A op \in GenOps : \A id \in Created(gl.log, op) : id \notin gl.live
        /\ At(gl.log, "glGenVertexArrays") = {}
        /\ At(gl.log, "glGenBuffers") = {}

\* C9: render() issues exactly one draw call, an indexed draw of 6 indices;
\* the clear comes first, then the activation of the shader (glUseProgram,
\* issued when the program is valid) and, in the textured variant, the
\* binding of the texture on unit 0, then the binding of the VAO, then the
\* draw, and the present comes last.
C9_OneDrawPerRender ==
    lastOp = "render" =>
        LET log   == gl.log
            clear == At(log, "glClear")
            setup == At(log, "glUseProgram") \cup At(log, "glActiveTexture")
                        \cup At(log, "glBindTexture")
            bind  == At(log, "glBindVertexArray")
            draw  == At(log, "glDrawElements")
            swap  == At(log, "SDL_GL_SwapWindow")
        IN  /\ Cardinality(draw) = 1
            /\ \A i \in draw : log[i].arg = 6
            /\ Cardinality(clear) = 1 /\ Cardinality(swap) = 1
            /\ bind = AtArg(log, "glBindVertexArray", m_VAO)
            /\ Cardinality(bind) = 1
            /\ Before(clear, setup) /\ Before(setup, bind)
            /\ Before(clear, bind) /\ Before(bind, draw) /\ Before(draw, swap)
            /\ swap = {Len(log)}
            /\ m_programId # 0 =>
                  Cardinality(AtArg(log, "glUseProgram", m_programId)) = 1
            /\ m_programId = 0 => At(log, "glUseProgram") = {}
            /\ variant = "textured" =>
                  /\ Cardinality(AtArg(log, "glBindTexture", m_texture)) = 1
                  /\ Before(At(log, "glActiveTexture"), At(log, "glBindTexture"))
            /\ variant = "ebo" => At(log, "glBindTexture") = {}

\* A render() of an initialized textured scene.
C9_Witness ==
    /\ lastOp = "render" /\ variant = "textured"
    /\ m_programId # 0 /\ m_VAO # 0 /\ m_texture # 0
    /\ At(gl.log, "glUseProgram") # {}

\* C10: once a resize event reporting (w, h) has been handled, the viewport
\* is (0, 0, w, h) and m_width, m_height are (w, h) for the last such event,
\* and an event of any other type leaves the viewport and the cached size
\* unchanged.
C10_ResizeSetsViewportAndSize ==
    /\ [](lastResize # <<>> =>
            /\ viewport = <<0, 0, lastResize[1], lastResize[2]>>
            /\ <<m_width, m_height>> = lastResize)
    /\ [][lastOp' = "event" => UNCHANGED <<viewport, m_width, m_height>>]_vars

\* A close request or quit event handled after a resize to 1024x768.
C10_Witness ==
    /\ lastOp = "event" /\ lastResize = <<1024, 768>>
    /\ viewport = <<0, 0, 1024, 768>> /\ m_width = 1024 /\ m_height = 768

----------------------------------------------------------------------------
(* Further claims about Shader and MyWindow *)

\* C18: a loadFromFile() that fails to open a file leaves the Shader as it
\* was: m_programId keeps its value, a program held before the call is
\* neither deleted nor invalidated and no library call is made; a compile()
\* that fails, in contrast, always leaves m_programId at zero.
C18_FailedOpenKeepsProgram ==
    /\ (lastOp = "loadFromFile" /\ (~lastArgs.vOpen \/ ~lastArgs.fOpen)) =>
          /\ m_programId = prePid
          /\ gl.log = <<>>
          /\ prePid # 0 => (prePid \in gl.live /\ gl.dels[prePid] = 0)
    /\ (lastOp = "compile" /\ ~lastRet /\ prePid # 0) =>
          (m_programId = 0 /\ prePid \notin gl.live)

\* A loadFromFile() that cannot open the fragment file, on a Shader that
\* holds a linked program.
C18_Witness ==
    /\ lastOp = "loadFromFile" /\ ~lastRet
    /\ lastArgs.vOpen /\ ~lastArgs.fOpen
    /\ prePid # 0 /\ m_programId = prePid /\ prePid \in gl.live

\* The handles of the scene.
Handles == <<m_VAO, m_VBO, m_EBO, m_texture, m_programId>>

\* C14 as stated: render() and processEvents() leave VAO, VBO, EBO, texture
\* and the program id unchanged and create and delete nothing; objects are
\* created only inside initialize() and deleted only inside cleanup() and
\* the destructors.
C14_Original ==
    [][/\ lastOp' \in {"render", "resize", "event"} =>
            (Handles' = Handles /\ gl'.objs = gl.objs
             /\ gl'.live = gl.live /\ gl'.dels = gl.dels)
       /\ gl'.objs # gl.objs => lastOp' = "initialize"
       /\ gl'.dels # gl.dels => lastOp' \in {"cleanup", "destroy"}]_vars

\* C14 as amended: render() and processEvents() leave the handles unchanged
\* and create and delete nothing; objects are created only inside
\* initialize(); objects are deleted inside cleanup() and the destructors and
\* also inside initialize(), where Shader::compile() deletes its stages, a
\* program that fails to link and the program held before, and nothing else.
C14_NoGpuChurnInRenderLoop ==
    [][/\ lastOp' \in {"render", "resize", "event"} =>
            (Handles' = Handles /\ gl'.objs = gl.objs
             /\ gl'.live = gl.live /\ gl'.dels = gl.dels)
       /\ gl'.objs # gl.objs => lastOp' = "initialize"
       /\ gl'.dels # gl.dels => lastOp' \in {"initialize", "cleanup", "destroy"}
       /\ lastOp' = "initialize" =>
            \A i \in Deletes(gl'.log) :
                /\ gl'.log[i].op \in {"glDeleteShader", "glDeleteProgram"}
                /\ gl'.objs[gl'.log[i].arg] \in {"vertex", "fragment", "program"}]_vars

\* A frame rendered on an initialized scene after a resize event was handled.
C14_Witness ==
    /\ lastOp = "render" /\ Ready /\ lastResize # <<>>
    /\ {m_VAO, m_VBO, m_EBO, m_programId} \subseteq gl.live

\* The objects alive and the program ids they hold.
AliveShaders == {i \in Slots : shaders[i].st = "alive"}
HeldPids == {shaders[i].pid : i \in AliveShaders} \ {0}

\* No program id is held by two Shader objects, every id held names a
\* program that was never deleted, and no object was deleted twice.
ExclusiveOwnership ==
    /\ \A i, j \in AliveShaders :
          (i # j /\ shaders[i].pid # 0) => shaders[i].pid # shaders[j].pid
    /\ \A i \in Slots : shaders[i].st = "dead" => shaders[i].pid = 0
    /\ \A id \in HeldPids : id \in gl.live /\ gl.dels[id] = 0
    /\ \A id \in DOMAIN gl.dels : gl.dels[id] <= 1

\* What a move does, with lastMove' = <<op, destination, source, id held by
\* the destination before, id held by the source before>>.
MoveEffect ==
    LET op  == lastMove'[1]
        dst == lastMove'[2]
        src == lastMove'[3]
        old == lastMove'[4]
        got == lastMove'[5]
        GlSame == gl'.objs = gl.objs /\ gl'.live = gl.live /\ gl'.dels = gl.dels
    IN  /\ op = "moveConstruct" =>
              /\ shaders'[src].pid = 0
              /\ shaders'[dst].pid = got
              /\ GlSame /\ gl'.log = <<>>
        /\ (op = "moveAssign" /\ dst # src) =>
              /\ shaders'[src].pid = 0
              /\ shaders'[dst].pid = got
              /\ gl'.objs = gl.objs
              /\ IF old # 0
                 THEN /\ gl'.log = <<[op |-> "glDeleteProgram", arg |-> old]>>
                      /\ gl'.dels[old] = 1
                      /\ gl'.live = gl.live \ {old}
                 ELSE GlSame /\ gl'.log = <<>>
        /\ (op = "moveAssign" /\ dst = src) =>
              /\ shaders' = shaders
              /\ GlSame /\ gl'.log = <<>>

\* C13: after a move construction or move assignment from other, other holds
\* 0 and the destination holds other's former id; move assignment deletes
\* the destination's previous program exactly once first; self move
\* assignment changes nothing; no id is ever held by two objects and none is
\* deleted twice.
C13_MovesKeepOwnershipExclusive ==
    []ExclusiveOwnership /\ [][lastMove' # lastMove => MoveEffect]_vars

\* A move assignment between two objects that both hold a program: the
\* destination's program is deleted and the source gives its id away.
C13_Witness ==
    /\ lastMove # <<>>
    /\ lastMove[1] = "moveAssign" /\ lastMove[2] # lastMove[3]
    /\ lastMove[4] # 0 /\ lastMove[5] # 0
    /\ shaders[lastMove[2]].pid = lastMove[5]
    /\ shaders[lastMove[3]].pid = 0
    /\ gl.dels[lastMove[4]] = 1

----------------------------------------------------------------------------
(* Claims about the entry points *)

\* main has ended: it returned, or std::terminate ended the process.
Ended_ == pc \in {"done", "aborted"}

\* C11 as stated: main returns 0 when the loop was left through a quit and
\* returns -1 on every initialization failure (SDL init, native window, GL
\* context, GL loader, scene initialize()), in both variants of main.
C11_Original ==
    Ended_ => /\ pc = "done"
              /\ exitCode = IF hist.fail = "none" THEN 0 ELSE -1

\* The release calls in a call log.
Releases(log) ==
    Deletes(log) \cup At(log, "SDL_GL_DestroyContext") \cup At(log, "SDL_DestroyWindow")

\* C12 as stated: on every exit path of the MyWindow-based main that
\* constructed the window (normal exit and initialize() failure) the scene
\* handles and the program are deleted before the GL context is destroyed,
\* the context before the native window, the window before SDL_Quit(), and
\* no delete or destroy call follows SDL_Quit().
C12_Original ==
    (mainKind = "mywindow" /\ pc = "done" /\ hist.fail \in {"none", "initialize"}) =>
        /\ At(gl.log, "SDL_GL_DestroyContext") # {}
        /\ At(gl.log, "SDL_DestroyWindow") # {}
        /\ At(gl.log, "SDL_Quit") # {}
        /\ Before(Deletes(gl.log), At(gl.log, "SDL_GL_DestroyContext"))
        /\ Before(At(gl.log, "SDL_GL_DestroyContext"), At(gl.log, "SDL_DestroyWindow"))
        /\ Before(At(gl.log, "SDL_DestroyWindow"), At(gl.log, "SDL_Quit"))
        /\ Before(Releases(gl.log), At(gl.log, "SDL_Quit"))

\* main has left while (running).
LoopLeft == pc = "teardown" \/ (pc = "done" /\ hist.fail = "none")

\* The exit flag is set exactly when a quit was polled; every event polled is
\* dispatched; the loop is left only after a quit and one frame after it.
ExitFlagFollowsQuit ==
    /\ LoopLeft => (hist.quitPolled /\ hist.postQuitRenders = 1)
    /\ pc = "poll" => ((running <=> ~hist.quitPolled) /\ hist.postQuitRenders = 0)
    /\ mainKind = "mywindow" =>
          /\ hist.nDispatched = hist.nPolls
          /\ hist.quitPolled => hist.postQuitDispatched = hist.postQuitPolls + 1

\* The frame after a quit is the last step of the loop, and without a quit
\* the loop is not left.
OneFrameAfterQuit ==
    /\ (hist.quitPolled /\ hist'.nFrames # hist.nFrames) =>
          (pc' = "teardown" /\ hist'.nFrames = hist.nFrames + 1)
    /\ (~hist.quitPolled /\ ~hist'.quitPolled) => pc' = pc
    /\ pc # "poll" => (hist'.nPolls = hist.nPolls /\ hist'.nFrames = hist.nFrames)

\* C15: the exit flag is tested once per iteration.  After a quit event (or
\* Escape in the raw-SDL main) is polled the events still queued are polled
\* and, in the MyWindow main, dispatched to processEvents(), the quit event
\* included; one more frame is rendered and no further iteration starts;
\* the loop is never left unless such an event was polled.
C15_ExitFlagCheckedOncePerIteration ==
    []ExitFlagFollowsQuit /\ [][pc # "start" => OneFrameAfterQuit]_vars

\* A run of the MyWindow main that polled a quit event, dispatched a further
\* event of the same iteration, rendered the last frame and returned.
C15_Witness ==
    /\ mainKind = "mywindow" /\ pc = "done" /\ hist.fail = "none"
    /\ hist.quitPolled /\ hist.postQuitPolls >= 1
    /\ hist.postQuitDispatched = hist.postQuitPolls + 1
    /\ hist.postQuitRenders = 1 /\ hist.nFrames >= 2

\* Frames and dispatched events exist only after initialize() returned true.
CallsNeedInitialize ==
    mainKind = "mywindow" =>
        /\ (hist.nFrames > 0 \/ hist.nDispatched > 0) => hist.initTrue
        /\ hist.fail # "none" => (hist.nFrames = 0 /\ hist.nDispatched = 0)
        /\ pc \in {"poll", "teardown"} => (alive /\ hist.initTrue)

\* A frame or a dispatch happens on a window object that exists.
CallsNeedWindow ==
    (mainKind = "mywindow"
     /\ (hist'.nFrames # hist.nFrames \/ hist'.nDispatched # hist.nDispatched)) =>
        (alive /\ alive' /\ hist.initTrue)

\* C16: in the MyWindow main render() and processEvents() are called only
\* after initialize() returned true and while the window object exists: when
\* initialize() fails no frame is rendered and no event dispatched, and no
\* frame is rendered after window.reset().
C16_CallsOnlyOnInitializedWindow ==
    []CallsNeedInitialize /\ [][CallsNeedWindow]_vars

\* A run of the MyWindow main that dispatched events, rendered frames and
\* then destroyed its window.
C16_Witness ==
    /\ mainKind = "mywindow" /\ pc = "done" /\ hist.initTrue /\ ~alive
    /\ hist.nFrames >= 1 /\ hist.nDispatched >= 1
    /\ m_VAO = 0 /\ m_programId = 0

\* C17 as stated: on every path through the OpenGLWindow constructor and the
\* destructors that run afterwards (success then destruction, context
\* failure, loader failure, the failures with Window::~Window run by the
\* unwinding) the native window is destroyed exactly once and the GL
\* context, if created, exactly once.
C17_Original ==
    (/\ mainKind = "mywindow" /\ Ended_
     /\ native.winCreated = 1
     /\ pc = "aborted" => hist.unwound) =>
        /\ native.winDestroys = 1
        /\ native.ctxCreated = 1 => native.ctxDestroys = 1

====
